---- MODULE Spec2Model ----
(***************************************************************************)
(* Model of src/app.py: DocumentAnalyzer (_process_value,                  *)
(* analyze_document, _extract_info_from_text) and the batch loop that      *)
(* appends the analysed documents to st.session_state.documents_data.      *)
(*                                                                         *)
(* Representation.  A Python str is a sequence of tokens.  A token is a    *)
(* single character ("4", ".", ",", ":", " ", "(", ...) or a word: a       *)
(* maximal run of characters that are not digits, separators, colons,      *)
(* parentheses or whitespace ("Valor", "r$", "recibo").  Python values are *)
(* tagged records: [t |-> "none"], [t |-> "num", m, k] (the decimal        *)
(* m / 10^k, normalised), [t |-> "str", s], [t |-> "dict", d],             *)
(* [t |-> "list", items], [t |-> "bool"], [t |-> "exc", e].  Floats are    *)
(* modelled as exact decimals: binary rounding is not modelled.            *)
(***************************************************************************)
EXTENDS Integers, Sequences, FiniteSets, TLC

VARIABLES
    documents_data,  \* st.session_state.documents_data: [columns, rows]
    uploaded_files,  \* the list returned by st.file_uploader for this run
    i,               \* index of the batch loop (1-based; Python's i + 1)
    pc,              \* "idle" | "loop" | "aborted": position of the script
    last,            \* what the latest loop iteration did (history)
    log,             \* the outcome of each iteration of this run (history)
    response,        \* single-call specification: what the service answers
    analysis,        \* single-call specification: analyze_document's return
    apc              \* single-call specification: "call" | "returned"

vars ==
    <<documents_data, uploaded_files, i, pc, last, log, response, analysis, apc>>

----------------------------------------------------------------------------
(* Python values *)

None == [t |-> "none"]

Num(m, k) == [t |-> "num", m |-> m, k |-> k]

Str(s) == [t |-> "str", s |-> s]

Exc(e) == [t |-> "exc", e |-> e]

IsExc(x) == x.t = "exc"

RECURSIVE Pow10(_)
Pow10(k) == IF k = 0 THEN 1 ELSE 10 * Pow10(k - 1)

\* The one float a decimal literal denotes: trailing zeros carry no value.
RECURSIVE Norm(_, _)
Norm(m, k) == IF k > 0 /\ m % 10 = 0 THEN Norm(m \div 10, k - 1) ELSE Num(m, k)

----------------------------------------------------------------------------
(* Characters *)

DecimalDigits == {"0", "1", "2", "3", "4", "5", "6", "7", "8", "9"}

\* A character such as U+00B2 (superscript two): str.isdigit() is True for
\* it, float() rejects it.
SupTwo == "sup2"

DigitVal(c) ==
    CASE c = "0" -> 0 [] c = "1" -> 1 [] c = "2" -> 2 [] c = "3" -> 3
      [] c = "4" -> 4 [] c = "5" -> 5 [] c = "6" -> 6 [] c = "7" -> 7
      [] c = "8" -> 8 [] c = "9" -> 9

isdigit(c) == c \in DecimalDigits \cup {SupTwo}

Count(s, c) == Cardinality({n \in 1..Len(s) : s[n] = c})

Contains(s, c) == \E n \in 1..Len(s) : s[n] = c

----------------------------------------------------------------------------
(* DocumentAnalyzer._process_value *)

\* line 39: ''.join(c for c in value_str if c.isdigit() or c in '.,')
CleanValue(value_str) ==
    SelectSeq(value_str, LAMBDA c : isdigit(c) \/ c \in {".", ","})

\* line 45: clean_value[:-2] + '.' + clean_value[-2:]
InsertCentsLen3(s) ==
    IF Len(s) > 3
    THEN SubSeq(s, 1, Len(s) - 2) \o <<".">> \o SubSeq(s, Len(s) - 1, Len(s))
    ELSE s
InsertCents(s) ==
    IF Len(s) > 2
    THEN SubSeq(s, 1, Len(s) - 2) \o <<".">> \o SubSeq(s, Len(s) - 1, Len(s))
    ELSE s

\* line 48: clean_value.replace(',', '.')
ReplaceComma(s) == [n \in 1..Len(s) |-> IF s[n] = "," THEN "." ELSE s[n]]

\* lines 42-48
Separate(clean_value) ==
    IF ~Contains(clean_value, ",") /\ ~Contains(clean_value, ".")
    THEN InsertCents(clean_value)
    ELSE ReplaceComma(clean_value)

RECURSIVE DigitsToInt(_)
DigitsToInt(s) ==
    IF Len(s) = 0 THEN 0
    ELSE 10 * DigitsToInt(SubSeq(s, 1, Len(s) - 1)) + DigitVal(s[Len(s)])

\* line 51: float(clean_value), on a string of isdigit characters and '.'.
\* ValueError unless there is at most one '.', at least one digit, and every
\* digit is a decimal digit.
float(s) ==
    IF \/ Count(s, ".") > 1
       \/ \A n \in 1..Len(s) : s[n] = "."
       \/ \E n \in 1..Len(s) : s[n] \notin DecimalDigits \cup {"."}
    THEN Exc("ValueError")
    ELSE LET dot == IF Contains(s, ".")
                    THEN CHOOSE n \in 1..Len(s) : s[n] = "."
                    ELSE Len(s) + 1
             digits == SelectSeq(s, LAMBDA c : c # ".")
         IN  Norm(DigitsToInt(digits), IF dot > Len(s) THEN 0 ELSE Len(s) - dot)

Gt1000(v) == v.m > 1000 * Pow10(v.k)

Div100(v) == Norm(v.m, v.k + 2)

\* lines 54-55: if value > 1000: value = value / 100
RECURSIVE RescaleWhile(_)
RescaleWhile(value) ==
    IF Gt1000(value) THEN RescaleWhile(Div100(value)) ELSE value
Rescale(value) == IF Gt1000(value) THEN Div100(value) ELSE value

\* line 51: the local `value` before the correction, or the exception raised
ParsedValue(value_str) == float(Separate(CleanValue(value_str)))

\* lines 38-57: the body of the try block
ProcessValueBody(value_str) ==
    LET value == ParsedValue(value_str)
    IN  IF IsExc(value) THEN value ELSE Rescale(value)

\* lines 58-59: except: return None
ExceptNothing(r) == r
ExceptReturnNone(r) == IF IsExc(r) THEN None ELSE r

_process_value(value_str) == ExceptReturnNone(ProcessValueBody(value_str))

----------------------------------------------------------------------------
(* str methods used by _extract_info_from_text *)

Whitespace == {" "}

\* str.lower() of one token
LowerToken(w) ==
    CASE w = "Valor" -> "valor"
      [] w = "VALOR" -> "valor"
      [] w = "Tipo" -> "tipo"
      [] w = "Data" -> "data"
      [] w = "R$" -> "r$"
      [] w = "Total" -> "total"
      [] OTHER -> w

lower(s) == [n \in 1..Len(s) |-> LowerToken(s[n])]

\* str.strip()
RECURSIVE strip(_)
strip(s) ==
    IF Len(s) = 0 THEN s
    ELSE IF s[1] \in Whitespace THEN strip(Tail(s))
    ELSE IF s[Len(s)] \in Whitespace THEN strip(SubSeq(s, 1, Len(s) - 1))
    ELSE s

\* str.split(sep): the pieces between the occurrences of sep, at least one
RECURSIVE split(_, _)
split(s, sep) ==
    IF ~Contains(s, sep) THEN <<s>>
    ELSE LET n == CHOOSE n \in 1..Len(s) :
                      s[n] = sep /\ \A q \in 1..(n - 1) : s[q] # sep
         IN  <<SubSeq(s, 1, n - 1)>> \o split(SubSeq(s, n + 1, Len(s)), sep)

\* The keywords that occur inside one lower-cased word
KeywordsIn(w) ==
    CASE w = "valor_total" -> {"valor", "valor_total"}
      [] w = "tipo_documento" -> {"tipo", "tipo_documento"}
      [] w = "metodo_pagamento" -> {"pagamento", "metodo_pagamento"}
      [] OTHER -> {w}

\* keyword in line
HasKeyword(line, kw) == \E n \in 1..Len(line) : kw \in KeywordsIn(line[n])

\* line.split(":")[-1].strip()
LastField(line) ==
    LET parts == split(line, ":") IN strip(parts[Len(parts)])

\* ''.join(filter(str.isdigit, value))
OnlyDigits(value) == SelectSeq(value, isdigit)

FieldNames ==
    {"tipo_documento", "valor_total", "data", "estabelecimento", "categoria",
     "metodo_pagamento"}

\* lines 120-127
EmptyInfo == [f \in FieldNames |-> Str(<<>>)]

\* lines 133-147: the if/elif chain; the field the line sets, "" for none
ClassifyValorFirst(line) ==
    IF HasKeyword(line, "valor") THEN "valor_total"
    ELSE IF HasKeyword(line, "tipo") THEN "tipo_documento"
    ELSE IF HasKeyword(line, "data") THEN "data"
    ELSE IF HasKeyword(line, "estabelecimento") THEN "estabelecimento"
    ELSE IF HasKeyword(line, "categoria") THEN "categoria"
    ELSE IF HasKeyword(line, "pagamento") THEN "metodo_pagamento"
    ELSE ""
Classify(line) ==
    IF HasKeyword(line, "tipo") THEN "tipo_documento"
    ELSE IF HasKeyword(line, "valor") THEN "valor_total"
    ELSE IF HasKeyword(line, "data") THEN "data"
    ELSE IF HasKeyword(line, "estabelecimento") THEN "estabelecimento"
    ELSE IF HasKeyword(line, "categoria") THEN "categoria"
    ELSE IF HasKeyword(line, "pagamento") THEN "metodo_pagamento"
    ELSE ""

\* lines 132-147: one iteration of `for line in lines`
ExtractLine(info, rawline) ==
    LET line == strip(lower(rawline))
        field == Classify(line)
    IN  IF field = "" THEN info
        ELSE IF field = "valor_total"
        THEN [info EXCEPT !["valor_total"] = Str(OnlyDigits(LastField(line)))]
        ELSE [info EXCEPT ![field] = Str(LastField(line))]

RECURSIVE ExtractLines(_, _)
ExtractLines(info, lines) ==
    IF Len(lines) = 0 THEN info
    ELSE ExtractLines(ExtractLine(info, Head(lines)), Tail(lines))

\* lines 116-153; a str has no failing operation in the try block, so the
\* except branch (return None) is not reachable from analyze_document
_extract_info_from_text(text) ==
    [t |-> "dict", d |-> ExtractLines(EmptyInfo, split(text, "\n"))]

----------------------------------------------------------------------------
(* DocumentAnalyzer.analyze_document *)

\* Python truth value: `if result:`, `extracted_info and ...`
Truthy(x) ==
    CASE x.t = "none" -> FALSE
      [] x.t = "dict" -> DOMAIN x.d # {}
      [] x.t = "list" -> Len(x.items) > 0
      [] x.t = "str" -> Len(x.s) > 0
      [] x.t = "num" -> x.m # 0
      [] x.t = "bool" -> x.b

\* str(x), for the values a field of the modelled responses holds
PyStr(x) ==
    CASE x.t = "str" -> x.s
      [] x.t = "none" -> <<"None">>

\* d[key] = v
SetItem(x, key, v) ==
    [x EXCEPT !.d = [q \in DOMAIN x.d \cup {key} |-> IF q = key THEN v ELSE x.d[q]]]

\* line 100: json.loads(result); the response is held parsed
json_loads(resp) ==
    IF resp.kind = "json" THEN resp.value ELSE Exc("JSONDecodeError")

\* line 102: 'valor_total' in json_result, for a dict (a key), a list (an
\* item) and a str (a substring); any other type is not iterable
InValorTotal(x) ==
    CASE x.t = "dict" -> "valor_total" \in DOMAIN x.d
      [] x.t = "list" -> \E n \in 1..Len(x.items) :
                             x.items[n] = Str(<<"valor_total">>)
      [] x.t = "str" -> HasKeyword(x.s, "valor_total")

\* lines 102-104; json_result['valor_total'] is a TypeError on a list or str
JsonBranch(json_result) ==
    IF json_result.t \notin {"dict", "list", "str"} THEN Exc("TypeError")
    ELSE IF ~InValorTotal(json_result) THEN json_result
    ELSE IF json_result.t # "dict" THEN Exc("TypeError")
    ELSE SetItem(json_result, "valor_total",
                 _process_value(PyStr(json_result.d["valor_total"])))

\* lines 107-110
TextBranch(text) ==
    LET extracted_info == _extract_info_from_text(text)
    IN  IF Truthy(extracted_info) /\ "valor_total" \in DOMAIN extracted_info.d
        THEN SetItem(extracted_info, "valor_total",
                     _process_value(PyStr(extracted_info.d["valor_total"])))
        ELSE extracted_info

\* lines 63-110: the body of the outer try block
AnalyzeBody(resp) ==
    IF resp.kind = "raise" THEN Exc("APIError")
    ELSE LET json_result == json_loads(resp)
         IN  IF IsExc(json_result) THEN TextBranch(resp.text)
             ELSE JsonBranch(json_result)

\* lines 112-114: except Exception: st.error(...); return None
analyze_document(resp) ==
    LET r == AnalyzeBody(resp) IN IF IsExc(r) THEN None ELSE r

----------------------------------------------------------------------------
(* Inputs of the single-call specification *)

MaxStrLen == 5

MaxLines == 2

ValueChars == {"0", "1", "5", ".", ",", "x", SupTwo}

SeqsUpTo(S, n) == UNION {[1..q -> S] : q \in 0..n}

\* The amount strings the specification names
ExampleValues ==
    { <<"5", "0">>,
      <<"1", "0", "5", "0">>,
      <<"1", "5", "0", "0", "0", "0">>,
      <<"1", "5", "0", "0", "0", "0", "0", "0">>,
      <<"1", ".", "2", "3", "4", ",", "5", "6">>,
      <<"1", ",", "2", "3", "4", ".", "5", "6">>,
      <<"4", "5", ",", "9", "0">>,
      <<"R$", " ", "4", "5", ",", "9", "0">>,
      <<"1", "0", "0", "0", "0", "1", ".">> }

ValueStrings == SeqsUpTo(ValueChars, MaxStrLen) \cup ExampleValues

\* A JSON object whose valor_total is the string s
ValueResponse(s) ==
    [kind |-> "json",
     value |-> [t |-> "dict", d |-> [f \in {"valor_total"} |-> Str(s)]]]

\* Lines of a free-text answer
SampleLines ==
    { <<>>,
      <<"Valor", ":", " ", "R$", " ", "4", "5", ",", "9", "0">>,
      <<"Tipo", ":", " ", "recibo">>,
      <<"tipo", " ", "de", " ", "valor", ":", " ", "3">>,
      <<"Total", " ", "1", "2", ",", "0", "0">>,
      <<"valor", " ", "7">>,
      <<" ", "VALOR", ":", " ", "1", "0", ":", "3", "0", " ">>,
      <<"valor", ":", " ", "gratis">>,
      <<"Data", ":", " ", "2", "0", "2", "4">>,
      <<"estabelecimento", ":", " ", "mercado">>,
      <<"categoria", " ", "do", " ", "estabelecimento", ":", " ", "loja">>,
      <<"categoria", ":", " ", "data", " ", "5">>,
      <<"pagamento", ":", " ", "pix">>,
      <<"valor_total", ":", " ", "4", "5", ",", "9", "0", ",">> }

RECURSIVE JoinLines(_)
JoinLines(ls) ==
    IF Len(ls) = 0 THEN <<>>
    ELSE IF Len(ls) = 1 THEN ls[1]
    ELSE ls[1] \o <<"\n">> \o JoinLines(Tail(ls))

TextResponse(ls) == [kind |-> "text", text |-> JoinLines(ls)]

AnalyzeInputs ==
    {ValueResponse(s) : s \in ValueStrings}
        \cup {TextResponse(ls) : ls \in SeqsUpTo(SampleLines, MaxLines)}

----------------------------------------------------------------------------
(* Session state and the frame *)

Columns ==
    <<"tipo_documento", "valor_total", "data", "estabelecimento", "categoria",
      "metodo_pagamento", "nome_arquivo">>

\* lines 169-173
EmptyFrame == [columns |-> Columns, rows |-> <<>>]

NaN == [t |-> "nan"]

NoResponse == [kind |-> "none"]

NoIteration == [file |-> <<>>, step |-> "none", called |-> FALSE, resp |-> NoResponse]

\* lines 200-204: pd.concat([documents_data, pd.DataFrame([result])],
\* ignore_index=True): the columns are the union (the frame's first, then the
\* record's new keys), every row holds every column, NaN where it had none
NewKeys(frame, result) ==
    {key \in DOMAIN result.d : \A n \in 1..Len(frame.columns) : frame.columns[n] # key}

RECURSIVE SetToSeq(_)
SetToSeq(S) ==
    IF S = {} THEN <<>>
    ELSE LET x == CHOOSE x \in S : TRUE IN <<x>> \o SetToSeq(S \ {x})

ColumnSet(columns) == {columns[n] : n \in 1..Len(columns)}

Reindex(row, columns) ==
    [c \in ColumnSet(columns) |-> IF c \in DOMAIN row THEN row[c] ELSE NaN]

Concat(frame, result) ==
    LET columns == frame.columns \o SetToSeq(NewKeys(frame, result))
    IN  [columns |-> columns,
         rows |-> [n \in 1..Len(frame.rows) |-> Reindex(frame.rows[n], columns)]
                      \o <<Reindex(result.d, columns)>>]

----------------------------------------------------------------------------
(* The single-call specification: one analyze_document call on one answer *)

InitAnalyze ==
    /\ response \in AnalyzeInputs
    /\ analysis = None
    /\ apc = "call"
    /\ documents_data = EmptyFrame
    /\ uploaded_files = <<>>
    /\ i = 0
    /\ pc = "idle"
    /\ last = NoIteration
    /\ log = <<>>

Analyze ==
    /\ apc = "call"
    /\ analysis' = analyze_document(response)
    /\ apc' = "returned"
    /\ UNCHANGED <<response, documents_data, uploaded_files, i, pc, last, log>>

NextAnalyze == Analyze

SpecAnalyze == InitAnalyze /\ [][NextAnalyze]_vars

----------------------------------------------------------------------------
(* Properties of _process_value, checked under SpecAnalyze on the answers  *)
(* that are a JSON object with a valor_total string                         *)

\* the call has returned for a JSON object {"valor_total": <string>}
ValueCase == apc = "returned" /\ response.kind = "json"

\* the string passed to _process_value
ValueStr == response.value.d["valor_total"].s

\* the amount of the returned record
Amount == analysis.d["valor_total"]

NoSeparator(s) == ~Contains(s, ".") /\ ~Contains(s, ",")

AllDecimal(s) == \A n \in 1..Len(s) : s[n] \in DecimalDigits

\* v exceeds the integer n
Exceeds(v, n) == v.m > n * Pow10(v.k)

\* a is b divided by 100: a.m / 10^a.k = b.m / 10^(b.k + 2)
IsHundredthOf(a, b) ==
    /\ a.k <= b.k + 2
    /\ a.m * Pow10(b.k + 2 - a.k) = b.m

\* a string float() accepts: digits with at most one '.', at least one digit
IsDecimalLiteral(s) ==
    /\ \A n \in 1..Len(s) : s[n] \in DecimalDigits \cup {"."}
    /\ Count(s, ".") <= 1
    /\ \E n \in 1..Len(s) : s[n] \in DecimalDigits

\* C5 as stated: whenever the cleaned form has neither '.' nor ',' and at most
\* 2 digits, _process_value returns that integer value.
C5_AsStated ==
    (ValueCase /\ NoSeparator(CleanValue(ValueStr))
        /\ Len(CleanValue(ValueStr)) <= 2)
    => /\ Amount.t = "num"
       /\ AllDecimal(CleanValue(ValueStr))
       /\ Amount = Num(DigitsToInt(CleanValue(ValueStr)), 0)

\* C5 (amended): when the cleaned form has neither '.' nor ',', is not empty
\* and holds decimal digits only: with at most 2 digits the result is that
\* integer; with more than 2 digits the value parsed before the >1000
\* correction is <all digits but the last two>.<last two digits>.  An empty
\* cleaned form, or one with a non-decimal digit character, gives None.
C5_NoSeparator ==
    (ValueCase /\ NoSeparator(CleanValue(ValueStr)))
    => LET clean == CleanValue(ValueStr)
       IN  IF Len(clean) = 0 \/ ~AllDecimal(clean)
           THEN Amount = None
           ELSE IF Len(clean) <= 2
           THEN Amount = Num(DigitsToInt(clean), 0)
           ELSE /\ ParsedValue(ValueStr).t = "num"
                /\ ParsedValue(ValueStr).m * Pow10(2)
                     = DigitsToInt(clean) * Pow10(ParsedValue(ValueStr).k)
                /\ (ValueStr = <<"1", "0", "5", "0">> => Amount = Num(105, 1))

C5_Witness ==
    /\ ValueCase
    /\ ValueStr = <<"1", "0", "5", "0">>
    /\ Amount = Num(105, 1)

\* C6: a parsed value above 1000 is divided by 100 exactly once, also when
\* the quotient is still above 1000; a parsed value of at most 1000 is
\* returned as it is; "150000" gives 15.
C6_RescaleOnce ==
    (ValueCase /\ ParsedValue(ValueStr).t = "num")
    => LET v == ParsedValue(ValueStr)
       IN  /\ Amount.t = "num"
           /\ Exceeds(v, 1000) => IsHundredthOf(Amount, v)
           /\ ~Exceeds(v, 1000) => Amount = v
           /\ (ValueStr = <<"1", "5", "0", "0", "0", "0">> => Amount = Num(15, 0))

\* the quotient is itself above 1000 and is returned
C6_Witness ==
    /\ ValueCase
    /\ ParsedValue(ValueStr).t = "num"
    /\ Exceeds(ParsedValue(ValueStr), 100000)
    /\ Amount.t = "num"
    /\ Exceeds(Amount, 1000)

\* C7: _process_value returns a number or None and never an exception; None
\* when the string handed to float() is no decimal literal, in particular
\* with two or more separators or with no digit; the record is still
\* returned, with a None amount.
C7_NeverRaises ==
    ValueCase
    => LET clean == CleanValue(ValueStr)
       IN  /\ analysis.t = "dict"
           /\ Amount.t \in {"num", "none"}
           /\ ~IsDecimalLiteral(Separate(clean)) => Amount = None
           /\ Count(clean, ".") + Count(clean, ",") >= 2 => Amount = None
           /\ (\A n \in 1..Len(ValueStr) : ~isdigit(ValueStr[n])) => Amount = None

C7_Witness ==
    /\ ValueCase
    /\ ValueStr = <<"1", ".", "2", "3", "4", ",", "5", "6">>
    /\ analysis.t = "dict"
    /\ Amount = None

----------------------------------------------------------------------------
(* Properties of the free-text fallback, checked under SpecAnalyze on the  *)
(* answers that are not JSON                                                *)

TextCase == apc = "returned" /\ response.kind = "text"

KeywordOrder ==
    <<"tipo", "valor", "data", "estabelecimento", "categoria", "pagamento">>

FieldOrder ==
    <<"tipo_documento", "valor_total", "data", "estabelecimento", "categoria",
      "metodo_pagamento">>

\* the position in KeywordOrder of the first keyword the line contains, 0 for none
FirstKeyword(line) ==
    IF \E q \in 1..6 : HasKeyword(line, KeywordOrder[q])
    THEN CHOOSE q \in 1..6 :
             /\ HasKeyword(line, KeywordOrder[q])
             /\ \A r \in 1..(q - 1) : ~HasKeyword(line, KeywordOrder[r])
    ELSE 0

\* the text after the last colon of the line (the line when it has none)
AfterLastColon(line) ==
    IF ~Contains(line, ":") THEN line
    ELSE LET n == CHOOSE n \in 1..Len(line) :
                      line[n] = ":" /\ \A q \in (n + 1)..Len(line) : line[q] # ":"
         IN  SubSeq(line, n + 1, Len(line))

\* the lower-cased, trimmed lines of the answer
AnswerLines ==
    LET ls == split(response.text, "\n")
    IN  [n \in 1..Len(ls) |-> strip(lower(ls[n]))]

\* the last line classified as field number q, 0 for none
LastLineOf(q) ==
    LET hits == {n \in 1..Len(AnswerLines) : FirstKeyword(AnswerLines[n]) = q}
    IN  IF hits = {} THEN 0 ELSE CHOOSE n \in hits : \A r \in hits : r <= n

\* C8: each line is classified by the first keyword it contains, in the order
\* tipo, valor, data, estabelecimento, categoria, pagamento; a line
\* classified as amount stores the digit characters of the text after its
\* last colon, and the record's amount is _process_value of that digit
\* string; "Valor: R$ 45,90" stores "4590" and gives 45.90.
C8_Fallback ==
    TextCase
    => /\ analysis.t = "dict"
       /\ DOMAIN analysis.d = FieldNames
       /\ \A q \in {1, 3, 4, 5, 6} :
              analysis.d[FieldOrder[q]] =
                  IF LastLineOf(q) = 0 THEN Str(<<>>)
                  ELSE Str(strip(AfterLastColon(AnswerLines[LastLineOf(q)])))
       /\ LET stored == IF LastLineOf(2) = 0 THEN <<>>
                        ELSE SelectSeq(AfterLastColon(AnswerLines[LastLineOf(2)]),
                                       isdigit)
          IN  /\ Amount = _process_value(stored)
              /\ (LastLineOf(2) # 0 /\ AnswerLines[LastLineOf(2)]
                      = <<"valor", ":", " ", "r$", " ", "4", "5", ",", "9", "0">>)
                 => (stored = <<"4", "5", "9", "0">> /\ Amount = Num(459, 1))

\* an answer with a tipo line that also holds "valor", then the amount line
C8_Witness ==
    /\ TextCase
    /\ Len(AnswerLines) = 2
    /\ AnswerLines[1] = <<"tipo", " ", "de", " ", "valor", ":", " ", "3">>
    /\ AnswerLines[2] = <<"valor", ":", " ", "r$", " ", "4", "5", ",", "9", "0">>
    /\ analysis.d["tipo_documento"] = Str(<<"3">>)
    /\ Amount = Num(459, 1)

----------------------------------------------------------------------------
(* The batch loop, lines 186-207, and the clear button, lines 304-309 *)

MaxFiles == 3

MaxRows == 3

\* File names, character by character
NotaJpg == <<"n", "o", "t", "a", ".", "j", "p", "g">>

AJpg == <<"a", ".", "j", "p", "g">>

ParenJpg == <<"n", "(", "1", ")", ".", "j", "p", "g">>

OpenParenJpg == <<"n", "(", "1", ".", "j", "p", "g">>

FileNames == {NotaJpg, AJpg, ParenJpg, OpenParenJpg}

\* What the service may answer for a document
RaiseResponse == [kind |-> "raise"]

ObjectResponse ==
    [kind |-> "json",
     value |-> [t |-> "dict",
                d |-> [f \in FieldNames |->
                          IF f = "valor_total" THEN Str(<<"4", "5", ",", "9", "0">>)
                          ELSE Str(<<"recibo">>)]]]

ExtraKeyResponse ==
    [kind |-> "json",
     value |-> [t |-> "dict",
                d |-> [f \in {"tipo_documento", "valor_total", "moeda"} |->
                          IF f = "valor_total" THEN Str(<<"4", "5", ",", "9", "0">>)
                          ELSE Str(<<"recibo">>)]]]

EmptyObjectResponse == [kind |-> "json", value |-> [t |-> "dict", d |-> <<>>]]

ArrayResponse ==
    [kind |-> "json", value |-> [t |-> "list", items |-> <<Str(<<"recibo">>)>>]]

StringResponse == [kind |-> "json", value |-> Str(<<"ilegivel">>)]

NumberResponse == [kind |-> "json", value |-> Num(5, 0)]

NoKeywordResponse == TextResponse(<< <<"imagem", " ", "ilegivel">> >>)

Responses ==
    {RaiseResponse, ObjectResponse, ExtraKeyResponse, EmptyObjectResponse,
     ArrayResponse, StringResponse, NumberResponse, NoKeywordResponse}

\* re.compile(pat) for a pattern of literal characters, '.', '(' and ')':
\* re.error when the parentheses do not pair up
re_error(pat) ==
    \/ Count(pat, "(") # Count(pat, ")")
    \/ \E n \in 1..Len(pat) :
           Count(SubSeq(pat, 1, n), ")") > Count(SubSeq(pat, 1, n), "(")

\* Without a quantifier or an alternation a group matches what its content
\* matches: the pattern is the sequence of its atoms
Atoms(pat) == SelectSeq(pat, LAMBDA c : c \notin {"(", ")"})

\* re.search(pat, string) is not None
re_search(pat, string) ==
    LET atoms == Atoms(pat)
    IN  \E off \in 0..(Len(string) - Len(atoms)) :
            \A n \in 1..Len(atoms) :
                atoms[n] = "." \/ atoms[n] = string[off + n]

\* line 195: documents_data['nome_arquivo'].str.contains(file.name).any();
\* str.contains compiles its argument as a regular expression
ContainsAny(frame, name) ==
    \E n \in 1..Len(frame.rows) : re_search(name, frame.rows[n]["nome_arquivo"].s)

Init ==
    /\ documents_data = EmptyFrame
    /\ uploaded_files = <<>>
    /\ i = 0
    /\ pc = "idle"
    /\ last = NoIteration
    /\ log = <<>>
    /\ response = NoResponse
    /\ analysis = None
    /\ apc = "unused"

\* A run of the script with files in the uploader (line 186); a run that
\* died with an exception is followed by the next run
StartBatch ==
    /\ pc \in {"idle", "aborted"}
    /\ \E files \in SeqsUpTo(FileNames, MaxFiles) :
           /\ Len(files) > 0
           /\ Len(documents_data.rows) + Len(files) <= MaxRows
           /\ uploaded_files' = files
    /\ i' = 1
    /\ pc' = "loop"
    /\ last' = NoIteration
    /\ log' = <<>>
    /\ UNCHANGED <<documents_data, response, analysis, apc>>

\* the end of one iteration: the next file, or past the loop (line 206)
Advance(step, called, resp) ==
    /\ i' = i + 1
    /\ pc' = IF i = Len(uploaded_files) THEN "idle" ELSE "loop"
    /\ last' = [file |-> uploaded_files[i], step |-> step, called |-> called,
                resp |-> resp]
    /\ log' = Append(log, step)

\* an exception leaves the loop and ends the run
Abort(step, called, resp) ==
    /\ pc' = "aborted"
    /\ last' = [file |-> uploaded_files[i], step |-> step, called |-> called,
                resp |-> resp]
    /\ log' = Append(log, step)
    /\ UNCHANGED i

\* line 195 raises re.error
IterateRegexError ==
    /\ pc = "loop"
    /\ re_error(uploaded_files[i])
    /\ Abort("re_error", FALSE, NoResponse)
    /\ UNCHANGED <<documents_data, uploaded_files, response, analysis, apc>>

\* line 195: a stored name matches, the file is skipped
IterateSkip ==
    /\ pc = "loop"
    /\ ~re_error(uploaded_files[i])
    /\ ContainsAny(documents_data, uploaded_files[i])
    /\ Advance("skipped", FALSE, NoResponse)
    /\ UNCHANGED <<documents_data, uploaded_files, response, analysis, apc>>

\* lines 196-198: analyze_document returns a false value, nothing is appended
IterateNoRecord ==
    /\ pc = "loop"
    /\ ~re_error(uploaded_files[i])
    /\ ~ContainsAny(documents_data, uploaded_files[i])
    /\ \E resp \in Responses :
           /\ ~Truthy(analyze_document(resp))
           /\ Advance(IF resp.kind = "raise" THEN "service_error" ELSE "no_record",
                      TRUE, resp)
    /\ UNCHANGED <<documents_data, uploaded_files, response, analysis, apc>>

\* line 199: result['nome_arquivo'] = file.name on a list or a str
IterateTypeError ==
    /\ pc = "loop"
    /\ ~re_error(uploaded_files[i])
    /\ ~ContainsAny(documents_data, uploaded_files[i])
    /\ \E resp \in Responses :
           /\ Truthy(analyze_document(resp))
           /\ analyze_document(resp).t # "dict"
           /\ Abort("type_error", TRUE, resp)
    /\ UNCHANGED <<documents_data, uploaded_files, response, analysis, apc>>

\* lines 199-204: the record is appended
IterateAppend ==
    /\ pc = "loop"
    /\ ~re_error(uploaded_files[i])
    /\ ~ContainsAny(documents_data, uploaded_files[i])
    /\ \E resp \in Responses :
           /\ Truthy(analyze_document(resp))
           /\ analyze_document(resp).t = "dict"
           /\ documents_data' =
                  Concat(documents_data,
                         SetItem(analyze_document(resp), "nome_arquivo",
                                 Str(uploaded_files[i])))
           /\ Advance("appended", TRUE, resp)
    /\ UNCHANGED <<uploaded_files, response, analysis, apc>>

\* lines 304-309: the clear button, reached by a run that did not die (on an
\* empty frame it changes nothing)
ClearData ==
    /\ pc = "idle"
    /\ Len(documents_data.rows) > 0
    /\ documents_data' = EmptyFrame
    /\ UNCHANGED <<uploaded_files, i, pc, last, log, response, analysis, apc>>

Next ==
    \/ StartBatch
    \/ IterateRegexError
    \/ IterateSkip
    \/ IterateNoRecord
    \/ IterateTypeError
    \/ IterateAppend
    \/ ClearData

Spec == Init /\ [][Next]_vars

----------------------------------------------------------------------------
(* Properties of the batch loop, checked under Spec *)

\* a record of the collection has exactly this file name
NamePresent(name) ==
    \E n \in 1..Len(documents_data.rows) :
        documents_data.rows[n]["nome_arquivo"] = Str(name)

\* the run is over: the loop was left at its end or by an exception
RunOver == pc # "loop" /\ Len(uploaded_files) > 0

\* C1: an iteration for a file whose name is already in the collection calls
\* analyze_document not at all and leaves the collection as it was.
C1_AsStated ==
    [][(pc = "loop" /\ NamePresent(uploaded_files[i]))
          => (documents_data' = documents_data /\ ~last'.called)]_vars

\* C2: when the service call raised for one document of the run, every
\* document of the run still gets its whole iteration: the loop is not left
\* by an exception before the last of them.
C2_AsStated ==
    (RunOver /\ \E n \in 1..Len(log) : log[n] = "service_error")
    => /\ Len(log) = Len(uploaded_files)
       /\ \A n \in 1..Len(log) : log[n] \notin {"type_error", "re_error"}

\* C3: whatever the service answers, no error raised while handling the
\* answer leaves the loop.
C3_AsStated == ~(pc = "aborted" /\ last.step = "type_error")

\* C4: an answer that is not JSON and has no keyword on any line appends no
\* record: the document is skipped.
C4_AsStated ==
    (last.step # "none" /\ last.resp = NoKeywordResponse)
    => /\ last.step = "no_record"
       /\ ~NamePresent(last.file)

\* C9: the collection has exactly the six field names and nome_arquivo, and
\* so has every row, whatever keys the answer has.
C9_AsStated ==
    /\ ColumnSet(documents_data.columns) = FieldNames \cup {"nome_arquivo"}
    /\ \A n \in 1..Len(documents_data.rows) :
           DOMAIN documents_data.rows[n] = FieldNames \cup {"nome_arquivo"}

\* C10: a document is skipped only when its file name is already in the
\* collection.
C10_AsStated ==
    [][(pc = "loop" /\ last'.step = "skipped" /\ log' # log)
          => NamePresent(uploaded_files[i])]_vars

====
